---- MODULE Spec2Model ----
(***************************************************************************)
(* Model of the forum backend in src/server.py: three SQLite tables        *)
(* (threads, posts, documents) behind FastAPI request handlers.            *)
(*                                                                         *)
(* Spec      every handler is one atomic step.  The handlers are           *)
(*           `async def` bodies with no await, so under the single-process *)
(*           uvicorn.run of __main__ a handler runs from its first query   *)
(*           to its commit without another handler in between.             *)
(* SpecConc  get_thread and create_post split at the point between the     *)
(*           SELECT and the commit, as they interleave when several        *)
(*           worker processes share app.db.                                *)
(*                                                                         *)
(* SQLite does not enforce FOREIGN KEY constraints unless                  *)
(* PRAGMA foreign_keys is switched on, and server.py never does; the       *)
(* cascade on thread deletion is the ORM's (relationship cascade).         *)
(***************************************************************************)
EXTENDS Integers, Sequences, FiniteSets

VARIABLES threads, posts, documents, files, now, steps, resp, sess

vars == <<threads, posts, documents, files, now, steps, resp, sess>>
store == <<threads, posts, documents>>

(* ------------------------------ bounds -------------------------------- *)
\* state-changing steps explored in Spec
MaxSteps == 3
\* state-changing steps explored in SpecConc
MaxConcSteps == 6

(* ------------------------------ inputs -------------------------------- *)
Titles == {"Hello"}
Creators == {"alice"}
InitialTexts == {"First post"}
ReplyTexts == {"reply"}
UpdateTexts == {"First post", "edited text"}
None == "None"
NoTime == -1
\* the path the File Storage code returns for a saved upload
UploadPaths == {"/uploads/u1"}
\* image given to the JSON routes: a path or nothing
ImagePaths == {None, "/uploads/u1"}
\* an uploaded image: absent, saved, or failing while being saved
Uploads == {"absent", "saved", "fails"}
\* values uuid4() may return for a document id
DocIds == {"d1", "d2"}
DocTitles == {"Doc", "Doc v2"}
DocContents == {"text"}
DocTypes == {"note"}
Sessions == {"s1", "s2"}

(* ------------------------------ helpers ------------------------------- *)
SetMax(S) == CHOOSE m \in S : \A x \in S : x <= m

\* threads.id / posts.id: INTEGER PRIMARY KEY without AUTOINCREMENT, so
\* SQLite hands out max(rowid)+1, 1 for an empty table (ids are reused).
NextId(table) == IF DOMAIN table = {} THEN 1 ELSE SetMax(DOMAIN table) + 1

\* ids a client may name: every stored id and one that is not stored
TargetIds(table) == DOMAIN table \cup {NextId(table)}

Put(table, id, row) == [k \in DOMAIN table \cup {id} |-> IF k = id THEN row ELSE table[k]]
Drop(table, ids) == [k \in DOMAIN table \ ids |-> table[k]]

PostsOf(tid) == {p \in DOMAIN posts : posts[p].thread_id = tid}
DocsOf(tid) == {d \in DOMAIN documents : documents[d].thread_id = tid}

\* What a request left behind: the route, its input, the HTTP status and
\* detail, and in body the ids of the rows the handler returned (for
\* delete_thread: the ids of the posts and documents its cascade deleted).
Response(op, req, status, detail, body) ==
    [op |-> op, req |-> req, status |-> status, detail |-> detail, body |-> body]

HTTPException(op, req, status, detail) == Response(op, req, status, detail, <<>>)

(* --------------------------- response layer --------------------------- *)
\* response_model of each route decorator ("unchecked": none declared)
ResponseModel(op) ==
    CASE op = "get_thread" -> "CompleteThread"
      [] op = "create_thread" -> "Thread"
      [] op \in {"create_post", "create_post_json", "get_post", "update_post"} -> "Post"
      [] op = "get_posts" -> "Post"
      [] op \in {"create_document", "get_document", "update_document"} -> "Document"
      [] OTHER -> "unchecked"

\* FastAPI validates what the handler returns against the route's
\* response_model; a value of another shape is a server error.
Serialize(op, req, shape, body) ==
    IF ResponseModel(op) \in {shape, "unchecked"}
    THEN Response(op, req, 200, "", body)
    ELSE Response(op, req, 500, "response validation error", <<>>)

(* ------------------------------- rows --------------------------------- *)
\* variant: the initial post counted as a reply
NewThreadCountingInitialPost(title, creator) ==
    [title |-> title, creator |-> creator, created_at |-> now, updated_at |-> now,
     last_activity |-> now, view_count |-> 0, reply_count |-> 1]

\* ThreadDB(title=, creator=) with the column defaults
NewThread(title, creator) ==
    [title |-> title, creator |-> creator, created_at |-> now, updated_at |-> now,
     last_activity |-> now, view_count |-> 0, reply_count |-> 0]

\* PostDB(...) with the column defaults
NewPost(tid, author, text, image, initial) ==
    [author |-> author, thread_id |-> tid, text |-> text, time |-> now, image |-> image,
     edited |-> FALSE, seen |-> FALSE, view_count |-> 0, last_viewed |-> NoTime,
     is_initial_post |-> initial]

\* DocumentDB(id=, **document.dict()) with the column defaults
NewDocument(doc) ==
    [thread_id |-> doc.thread_id, title |-> doc.title, content |-> doc.content,
     type |-> doc.type, created_at |-> now, updated_at |-> now, last_viewed |-> NoTime,
     view_count |-> 0]

\* an UPDATE of a threads/documents row refreshes updated_at (onupdate=utcnow)
OnUpdate(row) == [row EXCEPT !.updated_at = now]

\* variant: a view also counted as activity
ViewedThreadAsActivity(row, loaded) ==
    [row EXCEPT !.view_count = loaded + 1, !.last_activity = now]

\* variant: the increment done by the database on the stored value
\* (UPDATE ... SET view_count = view_count + 1)
ViewedThreadInPlace(row, loaded) == [row EXCEPT !.view_count = @ + 1]

\* the `thread.view_count += 1` of get_thread, on the value the session loaded
ViewedThread(row, loaded) == [row EXCEPT !.view_count = loaded + 1]

\* variant: last_activity left alone
RepliedThreadKeepsActivity(row, loaded) == [row EXCEPT !.reply_count = loaded + 1]

\* `thread.reply_count += 1; thread.last_activity = utcnow()` of the create
\* post routes, on the value the session loaded
RepliedThread(row, loaded) == [row EXCEPT !.reply_count = loaded + 1, !.last_activity = now]

\* `post.view_count += 1; post.seen = True; post.last_viewed = utcnow()`
ViewedPost(row) == [row EXCEPT !.view_count = @ + 1, !.seen = TRUE, !.last_viewed = now]

\* `document.view_count += 1; document.last_viewed = utcnow()`
ViewedDocument(row) == [row EXCEPT !.view_count = @ + 1, !.last_viewed = now]

\* variant: edited set only when the payload differs from the stored values
UpdatedPostIfChanged(row, upd) ==
    [row EXCEPT !.text = upd.text, !.image = upd.image,
                !.edited = (row.edited \/ row.text # upd.text \/ row.image # upd.image)]

\* `for key, value in post_update.dict().items(): setattr(...); post.edited = True`
UpdatedPost(row, upd) == [row EXCEPT !.text = upd.text, !.image = upd.image, !.edited = TRUE]

\* `for key, value in document.dict().items(): setattr(db_document, key, value)`;
\* the ORM emits an UPDATE (and so refreshes updated_at) only if a value differs
UpdatedDocument(row, doc) ==
    LET set == [row EXCEPT !.thread_id = doc.thread_id, !.title = doc.title,
                           !.content = doc.content, !.type = doc.type]
    IN IF set = row THEN row ELSE OnUpdate(set)

\* variant: deleting a post takes one off its thread's reply_count
DeletePostDecrements(pid) ==
    /\ posts' = Drop(posts, {pid})
    /\ threads' = [t \in DOMAIN threads |->
                     IF t = posts[pid].thread_id
                     THEN [threads[t] EXCEPT !.reply_count = @ - 1]
                     ELSE threads[t]]
    /\ UNCHANGED documents

\* what `db.delete(post)` does to the rest of the database
DeletePostEffect(pid) ==
    /\ posts' = Drop(posts, {pid})
    /\ UNCHANGED <<threads, documents>>

\* variant: no cascade on the documents relationship
CascadeDeletePostsOnly(tid) ==
    /\ threads' = Drop(threads, {tid})
    /\ posts' = Drop(posts, PostsOf(tid))
    /\ UNCHANGED documents

\* db.delete(thread): the relationship cascade deletes the posts and documents
\* loaded through thread.posts / thread.documents, then the thread
CascadeDelete(tid) ==
    /\ threads' = Drop(threads, {tid})
    /\ posts' = Drop(posts, PostsOf(tid))
    /\ documents' = Drop(documents, DocsOf(tid))

\* db.query(PostDB).filter(thread_id == tid).order_by(time).all(): the rows in
\* any order that is ascending in time (ties in engine order)
OrderedByTime(S) ==
    {q \in [1..Cardinality(S) -> S] :
        /\ \A i, j \in 1..Cardinality(S) : i # j => q[i] # q[j]
        /\ \A i, j \in 1..Cardinality(S) : i < j => posts[q[i]].time <= posts[q[j]].time}

(* ------------------------------- Init --------------------------------- *)
Idle == [pc |-> "idle", op |-> "", tid |-> 0, loaded |-> 0, req |-> <<>>, status |-> 0]

\* init_db(): INITIAL_POSTS and INITIAL_DOCUMENTS are empty
Init ==
    /\ threads = <<>>
    /\ posts = <<>>
    /\ documents = <<>>
    /\ files = {}
    /\ now = 0
    /\ steps = 0
    /\ resp = Response("startup", <<>>, 0, "", <<>>)
    /\ sess = [s \in Sessions |-> Idle]

(* --------------------------- file storage ----------------------------- *)
\* variant: a failing save swallowed, the request going on without an image
SaveImageSwallowsError(upload, path, ok) ==
    CASE upload = "absent" -> /\ ok = TRUE
                              /\ path = None
                              /\ files' = files
      [] upload = "saved" -> /\ ok = TRUE
                             /\ path \in UploadPaths
                             /\ files' = files \cup {path}
      [] upload = "fails" -> /\ ok = TRUE
                             /\ path = None
                             /\ files' = files

\* the `if image: try: ... except` block of create_thread and create_post:
\* TRUE with the stored path (None without an upload), FALSE when saving raised.
\* A failing save may leave the file it had opened.
SaveImage(upload, path, ok) ==
    CASE upload = "absent" -> /\ ok = TRUE
                              /\ path = None
                              /\ files' = files
      [] upload = "saved" -> /\ ok = TRUE
                             /\ path \in UploadPaths
                             /\ files' = files \cup {path}
      [] upload = "fails" -> /\ ok = FALSE
                             /\ path \in UploadPaths
                             /\ files' \in {files, files \cup {path}}

(* ---------------------------- thread routes --------------------------- *)
\* GET /api/threads/{thread_id}
get_thread(tid) ==
    LET req == [thread_id |-> tid] IN
    /\ UNCHANGED <<posts, documents, files, now, sess>>
    /\ IF tid \notin DOMAIN threads
       THEN /\ resp' = HTTPException("get_thread", req, 404, "Thread not found")
            /\ UNCHANGED threads
       ELSE /\ threads' = [threads EXCEPT
                              ![tid] = OnUpdate(ViewedThread(@, threads[tid].view_count))]
            /\ resp' = Serialize("get_thread", req, "CompleteThread", <<>>)

\* POST /api/threads
create_thread(title, creator, initial_post, upload) ==
    LET req == [title |-> title, creator |-> creator, initial_post |-> initial_post,
                image |-> upload]
        tid == NextId(threads)
        pid == NextId(posts)
    IN
    /\ UNCHANGED <<documents, now, sess>>
    /\ \E ok \in BOOLEAN, image_path \in UploadPaths \cup {None} :
          /\ SaveImage(upload, image_path, ok)
          /\ IF ~ok
             THEN /\ resp' = HTTPException("create_thread", [image |-> upload], 500, "image save failed")
                  /\ UNCHANGED <<threads, posts>>
             ELSE /\ threads' = Put(threads, tid, NewThread(title, creator))
                  /\ posts' = Put(posts, pid, NewPost(tid, creator, initial_post, image_path, TRUE))
                  /\ resp' = Serialize("create_thread", req, "Thread", <<tid>>)

\* DELETE /api/threads/{thread_id}
delete_thread(tid) ==
    LET req == [thread_id |-> tid] IN
    /\ UNCHANGED <<files, now, sess>>
    /\ IF tid \notin DOMAIN threads
       THEN /\ resp' = HTTPException("delete_thread", req, 404, "Thread not found")
            /\ UNCHANGED <<threads, posts, documents>>
       ELSE /\ CascadeDelete(tid)
            /\ resp' = Serialize("delete_thread", req, "message", <<PostsOf(tid), DocsOf(tid)>>)

(* ----------------------------- post routes ---------------------------- *)
\* the insert and the thread update both create post routes commit together
InsertReply(tid, author, text, image_path, loaded) ==
    /\ posts' = Put(posts, NextId(posts), NewPost(tid, author, text, image_path, FALSE))
    /\ threads' = [threads EXCEPT ![tid] = OnUpdate(RepliedThread(@, loaded))]

\* POST /api/threads/{thread_id}/posts (multipart form)
create_post(tid, text, upload) ==
    LET req == [thread_id |-> tid, text |-> text, image |-> upload] IN
    /\ UNCHANGED <<documents, now, sess>>
    /\ IF tid \notin DOMAIN threads
       THEN /\ resp' = HTTPException("create_post", [thread_id |-> tid], 404, "Thread not found")
            /\ UNCHANGED <<threads, posts, files>>
       ELSE \E ok \in BOOLEAN, image_path \in UploadPaths \cup {None} :
              /\ SaveImage(upload, image_path, ok)
              /\ IF ~ok
                 THEN /\ resp' = HTTPException("create_post", req, 500, "image save failed")
                      /\ UNCHANGED <<threads, posts>>
                 ELSE /\ InsertReply(tid, "user", text, image_path, threads[tid].reply_count)
                      /\ resp' = Serialize("create_post", req, "Post", <<NextId(posts)>>)

\* POST /api/system/threads/{thread_id}/posts (JSON body)
create_post_json(tid, post) ==
    LET req == [thread_id |-> tid, text |-> post.text, image |-> post.image] IN
    /\ UNCHANGED <<documents, files, now, sess>>
    /\ IF tid \notin DOMAIN threads
       THEN /\ resp' = HTTPException("create_post_json", [thread_id |-> tid], 404, "Thread not found")
            /\ UNCHANGED <<threads, posts>>
       ELSE /\ InsertReply(tid, "system", post.text, post.image, threads[tid].reply_count)
            /\ resp' = Serialize("create_post_json", req, "Post", <<NextId(posts)>>)

\* GET /api/threads/{thread_id}/posts
get_posts(tid) ==
    LET req == [thread_id |-> tid] IN
    /\ UNCHANGED <<threads, posts, documents, files, now, sess>>
    /\ \E rows \in OrderedByTime(PostsOf(tid)) :
          resp' = Serialize("get_posts", req, "List[Post]", rows)

\* GET /api/posts/{post_id}
get_post(pid) ==
    LET req == [post_id |-> pid] IN
    /\ UNCHANGED <<threads, documents, files, now, sess>>
    /\ IF pid \notin DOMAIN posts
       THEN /\ resp' = HTTPException("get_post", req, 404, "Post not found")
            /\ UNCHANGED posts
       ELSE /\ posts' = [posts EXCEPT ![pid] = ViewedPost(@)]
            /\ resp' = Serialize("get_post", req, "Post", <<pid>>)

\* PUT /api/posts/{post_id}
update_post(pid, post_update) ==
    LET req == [post_id |-> pid, text |-> post_update.text, image |-> post_update.image] IN
    /\ UNCHANGED <<threads, documents, files, now, sess>>
    /\ IF pid \notin DOMAIN posts
       THEN /\ resp' = HTTPException("update_post", [post_id |-> pid], 404, "Post not found")
            /\ UNCHANGED posts
       ELSE /\ posts' = [posts EXCEPT ![pid] = UpdatedPost(@, post_update)]
            /\ resp' = Serialize("update_post", req, "Post", <<pid>>)

\* DELETE /api/posts/{post_id}
delete_post(pid) ==
    LET req == [post_id |-> pid] IN
    /\ UNCHANGED <<files, now, sess>>
    /\ IF pid \notin DOMAIN posts
       THEN /\ resp' = HTTPException("delete_post", req, 404, "Post not found")
            /\ UNCHANGED <<threads, posts, documents>>
       ELSE /\ DeletePostEffect(pid)
            /\ resp' = Serialize("delete_post", req, "message", <<>>)

(* --------------------------- document routes -------------------------- *)
\* POST /api/documents; id is the value uuid4() returned.  A primary key
\* already stored makes the INSERT fail (unhandled IntegrityError).  The
\* payload's thread_id is stored as given: the handler looks up no thread.
create_document(id, document) ==
    LET req == [id |-> id, thread_id |-> document.thread_id, title |-> document.title] IN
    /\ UNCHANGED <<threads, posts, files, now, sess>>
    /\ IF id \in DOMAIN documents
       THEN /\ resp' = HTTPException("create_document", [id |-> id], 500, "Internal Server Error")
            /\ UNCHANGED documents
       ELSE /\ documents' = Put(documents, id, NewDocument(document))
            /\ resp' = Serialize("create_document", req, "Document", <<id>>)

\* GET /api/documents/{doc_id}
get_document(id) ==
    LET req == [doc_id |-> id] IN
    /\ UNCHANGED <<threads, posts, files, now, sess>>
    /\ IF id \notin DOMAIN documents
       THEN /\ resp' = HTTPException("get_document", req, 404, "Document not found")
            /\ UNCHANGED documents
       ELSE /\ documents' = [documents EXCEPT ![id] = OnUpdate(ViewedDocument(@))]
            /\ resp' = Serialize("get_document", req, "Document", <<id>>)

\* DELETE /api/documents/{doc_id}
delete_document(id) ==
    LET req == [doc_id |-> id] IN
    /\ UNCHANGED <<threads, posts, files, now, sess>>
    /\ IF id \notin DOMAIN documents
       THEN /\ resp' = HTTPException("delete_document", req, 404, "Document not found")
            /\ UNCHANGED documents
       ELSE /\ documents' = Drop(documents, {id})
            /\ resp' = Serialize("delete_document", req, "message", <<>>)

\* PUT /api/documents/{doc_id}
update_document(id, document) ==
    LET req == [doc_id |-> id, thread_id |-> document.thread_id, title |-> document.title] IN
    /\ UNCHANGED <<threads, posts, files, now, sess>>
    /\ IF id \notin DOMAIN documents
       THEN /\ resp' = HTTPException("update_document", [doc_id |-> id], 404, "Document not found")
            /\ UNCHANGED documents
       ELSE /\ documents' = [documents EXCEPT ![id] = UpdatedDocument(@, document)]
            /\ resp' = Serialize("update_document", req, "Document", <<id>>)

(* ------------------------------- clock -------------------------------- *)
\* datetime.utcnow() between two requests: the wall clock, taken not to run
\* backwards
Tick ==
    /\ now' = now + 1
    /\ UNCHANGED <<threads, posts, documents, files, resp, sess>>

(* ------------------------- request payloads --------------------------- *)
PostCreate == [text : UpdateTexts, image : ImagePaths]
ReplyCreate == [text : ReplyTexts, image : ImagePaths]
DocumentCreate ==
    [thread_id : TargetIds(threads), title : {"Doc"}, content : DocContents, type : DocTypes]
DocumentUpdate ==
    [thread_id : TargetIds(threads), title : DocTitles, content : DocContents, type : DocTypes]

\* a step that changes anything but the last response uses up one of `limit`
Step(A, limit) ==
    /\ A
    /\ IF <<threads, posts, documents, files, now, sess>>' =
          <<threads, posts, documents, files, now, sess>>
       THEN steps' = steps
       ELSE steps < limit /\ steps' = steps + 1

Next ==
    \/ \E tid \in TargetIds(threads) : Step(get_thread(tid), MaxSteps)
    \/ \E t \in Titles, c \in Creators, i \in InitialTexts, u \in Uploads :
          Step(create_thread(t, c, i, u), MaxSteps)
    \/ \E tid \in TargetIds(threads) : Step(delete_thread(tid), MaxSteps)
    \/ \E tid \in TargetIds(threads), x \in ReplyTexts, u \in Uploads :
          Step(create_post(tid, x, u), MaxSteps)
    \/ \E tid \in TargetIds(threads), p \in ReplyCreate : Step(create_post_json(tid, p), MaxSteps)
    \/ \E tid \in TargetIds(threads) : Step(get_posts(tid), MaxSteps)
    \/ \E pid \in TargetIds(posts) : Step(get_post(pid), MaxSteps)
    \/ \E pid \in TargetIds(posts), p \in PostCreate : Step(update_post(pid, p), MaxSteps)
    \/ \E pid \in TargetIds(posts) : Step(delete_post(pid), MaxSteps)
    \/ \E id \in DocIds, d \in DocumentCreate : Step(create_document(id, d), MaxSteps)
    \/ \E id \in DocIds : Step(get_document(id), MaxSteps)
    \/ \E id \in DocIds : Step(delete_document(id), MaxSteps)
    \/ \E id \in DocIds, d \in DocumentUpdate : Step(update_document(id, d), MaxSteps)
    \/ Step(Tick, MaxSteps)

Spec == Init /\ [][Next]_vars

(* ------------------- concurrent requests (SpecConc) ------------------- *)
\* A session's commit whose UPDATE of the thread row matches no row (the
\* thread was deleted meanwhile) raises in the flush and nothing is written.
StaleData(s) == sess[s].tid \notin DOMAIN threads

Finish(s, status) == sess' = [sess EXCEPT ![s].pc = "done", ![s].status = status]

\* get_thread up to `if not thread: raise`: the SELECT
begin_get_thread(s, tid) ==
    /\ sess[s].pc \in {"idle", "done"}
    /\ UNCHANGED <<threads, posts, documents, files, now>>
    /\ IF tid \notin DOMAIN threads
       THEN /\ sess' = [sess EXCEPT ![s] = [Idle EXCEPT !.pc = "done", !.op = "get_thread",
                                                      !.tid = tid, !.status = 404]]
            /\ resp' = HTTPException("get_thread", [thread_id |-> tid], 404, "Thread not found")
       ELSE /\ sess' = [sess EXCEPT ![s] = [Idle EXCEPT !.pc = "loaded", !.op = "get_thread",
                                                      !.tid = tid,
                                                      !.loaded = threads[tid].view_count]]
            /\ UNCHANGED resp

\* get_thread from `thread.view_count += 1` to the commit
commit_get_thread(s) ==
    /\ sess[s].pc = "loaded"
    /\ sess[s].op = "get_thread"
    /\ UNCHANGED <<posts, documents, files, now>>
    /\ IF StaleData(s)
       THEN /\ Finish(s, 500)
            /\ resp' = HTTPException("get_thread", [thread_id |-> sess[s].tid], 500, "stale data")
            /\ UNCHANGED threads
       ELSE /\ threads' = [threads EXCEPT
                              ![sess[s].tid] = OnUpdate(ViewedThread(@, sess[s].loaded))]
            /\ Finish(s, 200)
            /\ resp' = Serialize("get_thread", [thread_id |-> sess[s].tid], "CompleteThread", <<>>)

\* create_post up to `if not thread: raise` (no image uploaded)
begin_create_post(s, tid, text) ==
    /\ sess[s].pc \in {"idle", "done"}
    /\ UNCHANGED <<threads, posts, documents, files, now>>
    /\ IF tid \notin DOMAIN threads
       THEN /\ sess' = [sess EXCEPT ![s] = [Idle EXCEPT !.pc = "done", !.op = "create_post",
                                                      !.tid = tid, !.status = 404]]
            /\ resp' = HTTPException("create_post", [thread_id |-> tid], 404, "Thread not found")
       ELSE /\ sess' = [sess EXCEPT ![s] = [Idle EXCEPT !.pc = "loaded", !.op = "create_post",
                                                      !.tid = tid, !.req = <<text>>,
                                                      !.loaded = threads[tid].reply_count]]
            /\ UNCHANGED resp

\* create_post from `db.add(db_post)` to the commit
commit_create_post(s) ==
    LET req == [thread_id |-> sess[s].tid, text |-> sess[s].req[1], image |-> "absent"] IN
    /\ sess[s].pc = "loaded"
    /\ sess[s].op = "create_post"
    /\ UNCHANGED <<documents, files, now>>
    /\ IF StaleData(s)
       THEN /\ Finish(s, 500)
            /\ resp' = HTTPException("create_post", req, 500, "stale data")
            /\ UNCHANGED <<threads, posts>>
       ELSE /\ InsertReply(sess[s].tid, "user", sess[s].req[1], None, sess[s].loaded)
            /\ Finish(s, 200)
            /\ resp' = Serialize("create_post", req, "Post", <<NextId(posts)>>)

NextConc ==
    \/ \E t \in Titles, c \in Creators, i \in InitialTexts :
          Step(create_thread(t, c, i, "absent"), MaxConcSteps)
    \/ \E tid \in DOMAIN threads : Step(delete_thread(tid), MaxConcSteps)
    \/ \E s \in Sessions, tid \in TargetIds(threads) :
          Step(begin_get_thread(s, tid), MaxConcSteps)
    \/ \E s \in Sessions : Step(commit_get_thread(s), MaxConcSteps)
    \/ \E s \in Sessions, tid \in TargetIds(threads), x \in ReplyTexts :
          Step(begin_create_post(s, tid, x), MaxConcSteps)
    \/ \E s \in Sessions : Step(commit_create_post(s), MaxConcSteps)
    \/ Step(Tick, MaxConcSteps)

SpecConc == Init /\ [][NextConc]_vars

(* ============================== claims =============================== *)
\* the step just taken is a request to route `op` (and resp' describes it)
Handled(op) ==
    /\ resp'.op = op
    /\ resp' # resp \/ store' # store \/ files' # files

InitialPostsOf(tid) == {p \in PostsOf(tid) : posts[p].is_initial_post}

\* C1: every stored post and every stored document has the thread_id of a
\* thread that exists.  (create_document and update_document store any
\* thread_id.)
C1_ReferentialIntegrity ==
    /\ \A p \in DOMAIN posts : posts[p].thread_id \in DOMAIN threads
    /\ \A d \in DOMAIN documents : documents[d].thread_id \in DOMAIN threads

\* C2: a successful delete thread on T removes, in its one step, T and
\* every post and document with thread_id T, and nothing else.
C2_DeleteThreadCascades ==
    [][Handled("delete_thread") /\ resp'.status = 200 =>
         LET t == resp'.req.thread_id IN
         /\ t \in DOMAIN threads
         /\ t \notin DOMAIN threads'
         /\ \A p \in DOMAIN posts' : posts'[p].thread_id # t
         /\ \A d \in DOMAIN documents' : documents'[d].thread_id # t
         /\ threads' = Drop(threads, {t})
         /\ posts' = Drop(posts, PostsOf(t))
         /\ documents' = Drop(documents, DocsOf(t))]_vars

C2_Witness ==
    /\ resp.op = "delete_thread"
    /\ resp.status = 200
    /\ resp.body[1] # {}
    /\ resp.body[2] # {}
    /\ resp.req.thread_id \notin DOMAIN threads

\* C3: for every record present before and after a step, view_count and
\* reply_count after the step are at least what they were before.
C3_CountersNeverDecrease ==
    [][/\ \A t \in DOMAIN threads \cap DOMAIN threads' :
             /\ threads'[t].view_count >= threads[t].view_count
             /\ threads'[t].reply_count >= threads[t].reply_count
       /\ \A p \in DOMAIN posts \cap DOMAIN posts' :
             posts'[p].view_count >= posts[p].view_count
       /\ \A d \in DOMAIN documents \cap DOMAIN documents' :
             documents'[d].view_count >= documents[d].view_count]_vars

C3_Witness ==
    /\ resp.op = "delete_post"
    /\ resp.status = 200
    /\ \E t \in DOMAIN threads : threads[t].reply_count >= 1 /\ PostsOf(t) = InitialPostsOf(t)

\* C4 as stated: ... and no reachable state holds a thread without its
\* initial post.
C4_ThreadAlwaysHasInitialPost ==
    \A t \in DOMAIN threads : Cardinality(InitialPostsOf(t)) = 1

\* C4 amended: a successful create thread adds, in one step, exactly one
\* thread (reply_count 0, view_count 0) and exactly one post; that post is
\* the only post of the new thread, is_initial_post, with the supplied
\* creator as author and initial_post as text.
C4_CreateThreadAddsThreadAndInitialPost ==
    [][Handled("create_thread") /\ resp'.status = 200 =>
         LET t == resp'.body[1] IN
         /\ t \notin DOMAIN threads
         /\ threads' = Put(threads, t, threads'[t])
         /\ threads'[t].reply_count = 0
         /\ threads'[t].view_count = 0
         /\ threads'[t].creator = resp'.req.creator
         /\ \E p \in DOMAIN posts' \ DOMAIN posts :
               /\ posts' = Put(posts, p, posts'[p])
               /\ {q \in DOMAIN posts' : posts'[q].thread_id = t} = {p}
               /\ posts'[p].is_initial_post
               /\ posts'[p].author = resp'.req.creator
               /\ posts'[p].text = resp'.req.initial_post
         /\ documents' = documents]_vars

C4_Witness ==
    /\ resp.op = "create_thread"
    /\ resp.status = 200
    /\ resp.body[1] \in DOMAIN threads
    /\ Cardinality(InitialPostsOf(resp.body[1])) = 1
    /\ Cardinality(DOMAIN threads) >= 2

\* C5: a successful create post on T (either route) inserts exactly one
\* post (thread_id T, not initial, author "user" for the form route and
\* "system" for the JSON route) and in the same step raises T.reply_count
\* by 1 and sets T.last_activity to a time >= the previous one; a create
\* post on a thread that does not exist answers 404 "Thread not found" and
\* changes no row.
C5_CreatePost ==
    [][\A op \in {"create_post", "create_post_json"} :
         Handled(op) =>
            LET t == resp'.req.thread_id IN
            /\ t \notin DOMAIN threads =>
                  /\ resp'.status = 404
                  /\ resp'.detail = "Thread not found"
                  /\ store' = store
            /\ resp'.status = 200 =>
                  /\ t \in DOMAIN threads
                  /\ \E p \in DOMAIN posts' \ DOMAIN posts :
                        /\ posts' = Put(posts, p, posts'[p])
                        /\ posts'[p].thread_id = t
                        /\ posts'[p].is_initial_post = FALSE
                        /\ posts'[p].text = resp'.req.text
                        /\ posts'[p].author = IF op = "create_post" THEN "user" ELSE "system"
                  /\ DOMAIN threads' = DOMAIN threads
                  /\ \A u \in DOMAIN threads \ {t} : threads'[u] = threads[u]
                  /\ threads'[t].reply_count = threads[t].reply_count + 1
                  /\ threads'[t].last_activity >= threads[t].last_activity
                  /\ threads'[t].last_activity = now
                  /\ documents' = documents
            /\ resp'.status # 200 => store' = store]_vars

C5_Witness ==
    \E t \in DOMAIN threads :
       /\ threads[t].reply_count = 2
       /\ {posts[p].author : p \in PostsOf(t) \ InitialPostsOf(t)} = {"user", "system"}
       /\ resp.status = 200
       /\ resp.op \in {"create_post", "create_post_json"}

\* C6 as stated: get thread on an existing id raises that thread's
\* view_count by 1 and changes nothing else in the store; on a missing id
\* it answers 404 "Thread not found" and changes nothing.
C6_GetThreadChangesOnlyViewCount ==
    [][Handled("get_thread") =>
         LET t == resp'.req.thread_id IN
         IF t \in DOMAIN threads
         THEN /\ threads' = [threads EXCEPT ![t].view_count = @ + 1]
              /\ posts' = posts
              /\ documents' = documents
         ELSE /\ resp'.status = 404
              /\ resp'.detail = "Thread not found"
              /\ store' = store]_vars

\* C6 amended: get thread on an existing id raises that thread's
\* view_count by exactly 1, refreshes that thread's updated_at to the
\* current time, and changes nothing else in the store; on a missing id it
\* answers 404 "Thread not found" and changes nothing.
C6_GetThreadCountsOneView ==
    [][Handled("get_thread") =>
         LET t == resp'.req.thread_id IN
         IF t \in DOMAIN threads
         THEN /\ threads' = [threads EXCEPT ![t].view_count = @ + 1, ![t].updated_at = now]
              /\ posts' = posts
              /\ documents' = documents
         ELSE /\ resp'.status = 404
              /\ resp'.detail = "Thread not found"
              /\ store' = store]_vars

C6_Witness ==
    /\ resp.op = "get_thread"
    /\ resp.status = 200
    /\ threads[resp.req.thread_id].view_count = 2

\* C7: a session's successful commit stores the counter value it loaded
\* plus 1, whatever the row holds by then; so two requests that loaded the
\* same value both succeed and leave the counter 1 higher, not 2
\* (C7_LostViewUpdate, C7_LostReplyUpdate are such states).
C7_CommitWritesLoadedPlusOne ==
    [][\A s \in Sessions :
         sess[s].pc = "loaded" /\ sess'[s].pc = "done" /\ sess'[s].status = 200 =>
            /\ sess[s].op = "get_thread" =>
                  threads'[sess[s].tid].view_count = sess[s].loaded + 1
            /\ sess[s].op = "create_post" =>
                  /\ threads'[sess[s].tid].reply_count = sess[s].loaded + 1
                  /\ Cardinality(DOMAIN posts') = Cardinality(DOMAIN posts) + 1]_vars

BothDone(op) ==
    /\ \A s \in Sessions : sess[s].pc = "done" /\ sess[s].op = op /\ sess[s].status = 200
    /\ \A s1, s2 \in Sessions : sess[s1].tid = sess[s2].tid /\ sess[s1].loaded = sess[s2].loaded

C7_LostViewUpdate ==
    /\ BothDone("get_thread")
    /\ \A s \in Sessions :
          /\ sess[s].tid \in DOMAIN threads
          /\ threads[sess[s].tid].view_count = sess[s].loaded + 1

C7_LostReplyUpdate ==
    /\ BothDone("create_post")
    /\ \A s \in Sessions :
          /\ sess[s].tid \in DOMAIN threads
          /\ threads[sess[s].tid].reply_count = sess[s].loaded + 1
          /\ Cardinality(PostsOf(sess[s].tid) \ InitialPostsOf(sess[s].tid)) = sess[s].loaded + 2

\* C8: a create thread or create post whose image fails to save answers
\* 500 and leaves every row of the database as it was.
C8_ImageFailureChangesNothing ==
    [][/\ Handled("create_thread") /\ resp'.req.image = "fails" =>
             resp'.status = 500 /\ store' = store
       /\ Handled("create_post") /\ resp'.status # 404 /\ resp'.req.image = "fails" =>
             resp'.status = 500 /\ store' = store
       /\ \A op \in {"create_thread", "create_post"} :
             Handled(op) /\ resp'.status = 500 => store' = store]_vars

C8_Witness ==
    /\ resp.op = "create_post"
    /\ resp.status = 500
    /\ resp.req.image = "fails"
    /\ resp.req.thread_id \in DOMAIN threads
    /\ files # {}

\* C9: update post on an existing post sets text and image to the payload
\* (image None when omitted), leaves edited = TRUE whether or not they
\* differ from the stored values, and changes no other field, post, thread
\* or document; repeating the update changes nothing more; on a missing id
\* it answers 404 "Post not found" and changes nothing.
C9_UpdatePost ==
    [][Handled("update_post") =>
         LET p == resp'.req.post_id IN
         IF p \in DOMAIN posts
         THEN /\ resp'.status = 200
              /\ DOMAIN posts' = DOMAIN posts
              /\ \A q \in DOMAIN posts \ {p} : posts'[q] = posts[q]
              /\ posts'[p].edited = TRUE
              /\ posts'[p].text = resp'.req.text
              /\ posts'[p].image = resp'.req.image
              /\ \A f \in {"thread_id", "author", "time", "is_initial_post", "seen",
                           "view_count", "last_viewed"} : posts'[p][f] = posts[p][f]
              /\ UpdatedPost(posts'[p], resp'.req) = posts'[p]
              /\ threads' = threads
              /\ documents' = documents
         ELSE /\ resp'.status = 404
              /\ resp'.detail = "Post not found"
              /\ store' = store]_vars

\* an update that repeats the stored text and image: the post is edited
C9_Witness ==
    /\ resp.op = "update_post"
    /\ resp.status = 200
    /\ \E p \in DOMAIN posts :
          /\ p = resp.req.post_id
          /\ posts[p].edited
          /\ posts[p].is_initial_post
          /\ posts[p].text \in InitialTexts
          /\ posts[p].image = None

\* C10: list posts for thread succeeds for every thread id and returns
\* exactly the stored posts of that thread in ascending time (the empty
\* list when there are none).
C10_GetPostsReturnsList ==
    resp.op = "get_posts" =>
       /\ resp.status = 200
       /\ resp.body \in OrderedByTime(PostsOf(resp.req.thread_id))

====
